---- MODULE Spec2Model ----
(***************************************************************************)
(* RAMSessions: an in-memory session store whose entries expire after a    *)
(* set time of inactivity.  Bags (map[interface{}]interface{}) are objects *)
(* in memory named by addresses, so that the sharing of a bag between a    *)
(* caller and the store is expressible.  The clock is the injected time    *)
(* source; it advances as fakeClock.Wait advances it.                      *)
(*                                                                         *)
(* Spec  : one goroutine calls the store; every call is one step.          *)
(* SpecC : several goroutines call the store; a call is a sequence of      *)
(*         steps (copy, Lock, the statements under the mutex, Unlock,      *)
(*         copy) that interleave with the steps of the other goroutines.   *)
(* SpecW : one goroutine calls RAMStore, the adapter in front of the       *)
(*         RAMSessions, and the SessionData a RAMStore can be given.       *)
(* SpecB : SpecC with the goroutine that purges in the background, the     *)
(*         goroutines calling for ever, under fair scheduling.             *)
(***************************************************************************)
EXTENDS Integers, FiniteSets, Sequences, TLC

\* ---- bounds of the model ----
MaxClock == 3
MaxWait == 2
MaxMaxAge == 1
MaxOps == 3

\* ---- the universe of the model ----
Keys == {"key", "key2"}
KeySeq == <<"key", "key2">>
BagKeys == {5}
BagVals == {8, 10}
Callers == {1, 2}
CallerSeq == <<1, 2>>
Bg == 3
Goroutines == Callers \cup {Bg}
Nil == 0
Free == 0
NoTimer == -1

EmptyBag == [x \in {} |-> 0]

VARIABLES
  data,     \* RAMSessions.data: session ID -> ramSession{data, lastAccessed}
  maxAge,   \* RAMSessions.maxAge
  now,      \* the value the clock function returns
  mutex,    \* RAMSessions.mutex: Free or the goroutine holding it
  heap,     \* the bags in memory: address -> content
  m,        \* per caller: the bag the caller owns and passes to Save
  out,      \* per caller: the bag its last Get/Poll returned (Nil: nil)
  pc,       \* per caller: where it is in the call it is making
  id,       \* per caller: the id argument of the call it is making
  loc,      \* per caller: the local variable `data` of Save, `result` of Get
  ops,      \* the number of calls and bag changes the goroutines have made
  acc,      \* history: per ID, what the calls made so far say about it
  lin,      \* history: per caller, acc[id] and the clock when its call
            \* executed under the mutex
  last,     \* history: the call that returned in the last step
  hist,     \* whether the history is kept (it is no part of the program)
  timer,    \* the background goroutine's time.After: seconds until it fires
  sdata,    \* the SData field of the RAMStore the last call was made on,
            \* or the SessionData the last call was made on
  session,  \* ID and IsNew of the sessions.Session the caller holds (the
            \* Values of that session are the bag out[c])
  err,      \* the error the last call on a RAMStore or SessionData returned
  cookie,   \* the cookie the last RAMStore.Save set on its response
  calls     \* history: the calls the last call on a RAMStore made on its
            \* SessionData

\* The state of the callers of RAMStore and SessionData.
adapter == <<sdata, session, err, cookie, calls>>

vars == <<data, maxAge, now, mutex, heap, m, out, pc, id, loc, ops, acc,
          lin, last, hist, timer, adapter>>

\* ---------------------------------------------------------------------
\* Pure helpers
\* ---------------------------------------------------------------------

\* Reading a bag: a nil map reads as a map with no entries.
Content(h, a) == IF a = Nil THEN EmptyBag ELSE h[a]

\* make(...): the address of a new object.  The bags in memory always have
\* the addresses 1..n (see Collect).
NewAddr(h) == Cardinality(DOMAIN h) + 1

Extend(f, k, v) == [x \in DOMAIN f \cup {k} |-> IF x = k THEN v ELSE f[x]]

Restrict(f, S) == [x \in DOMAIN f \cap S |-> f[x]]

\* (variant: no map is made for a bag without entries)
copyMapNilForEmpty(h, a) ==
  IF Content(h, a) = EmptyBag
    THEN [addr |-> Nil, heap |-> h]
    ELSE [addr |-> Cardinality(DOMAIN h) + 1,
          heap |-> Extend(h, Cardinality(DOMAIN h) + 1, Content(h, a))]

\* copyMap: a new map object holding the top-level entries of the argument.
copyMap(h, a) ==
  LET n == NewAddr(h) IN [addr |-> n, heap |-> Extend(h, n, Content(h, a))]

\* (variant: expires at an inactivity of exactly maxAge)
ExpiredAtMaxAge(s, t, age) == t - s.lastAccessed >= age

\* ramSession.Expired
Expired(s, t, age) == t - s.lastAccessed > age

\* (variant: records when the session will expire, not the access)
ramSessionGetExpiryStamp(s, t, age, updateLastAccessed) ==
  IF Expired(s, t, age)
    THEN [session |-> s, result |-> Nil]
    ELSE [session |-> IF updateLastAccessed
                        THEN [s EXCEPT !.lastAccessed = t + age]
                        ELSE s,
          result |-> s.data]

\* (variant: never records the access)
ramSessionGetNoRefresh(s, t, age, updateLastAccessed) ==
  IF Expired(s, t, age)
    THEN [session |-> s, result |-> Nil]
    ELSE [session |-> s, result |-> s.data]

\* (variant: records the access before it looks at the age)
ramSessionGetRefreshFirst(s, t, age, updateLastAccessed) ==
  [session |-> IF updateLastAccessed THEN [s EXCEPT !.lastAccessed = t] ELSE s,
   result |-> IF Expired(s, t, age) THEN Nil ELSE s.data]

\* ramSession.Get: the session after the call and the returned map.
ramSessionGet(s, t, age, updateLastAccessed) ==
  IF Expired(s, t, age)
    THEN [session |-> s, result |-> Nil]
    ELSE [session |-> IF updateLastAccessed
                        THEN [s EXCEPT !.lastAccessed = t]
                        ELSE s,
          result |-> s.data]

\* (variant: removes the entry it finds expired)
getDeleteExpired(d, i, t, age, updateLastAccessed) ==
  IF i \notin DOMAIN d
    THEN [data |-> d, result |-> Nil]
    ELSE IF Expired(d[i], t, age)
      THEN [data |-> [k \in DOMAIN d \ {i} |-> d[k]], result |-> Nil]
      ELSE LET g == ramSessionGet(d[i], t, age, updateLastAccessed)
           IN [data |-> [d EXCEPT ![i] = g.session], result |-> g.result]

\* RAMSessions.get, the statements under the mutex: the map after the call
\* and the returned (internal) bag.
get(d, i, t, age, updateLastAccessed) ==
  IF i \notin DOMAIN d
    THEN [data |-> d, result |-> Nil]
    ELSE LET g == ramSessionGet(d[i], t, age, updateLastAccessed)
         IN [data |-> [d EXCEPT ![i] = g.session], result |-> g.result]

\* (variant: keeps the bag of an entry that exists)
storeKeepBag(d, i, a, t) ==
  IF i \in DOMAIN d
    THEN [d EXCEPT ![i] = [@ EXCEPT !.lastAccessed = t]]
    ELSE [k \in DOMAIN d \cup {i} |->
            IF k = i THEN [data |-> a, lastAccessed |-> t] ELSE d[k]]

\* The statement of Save under the mutex: r.data[id] = &ramSession{data, now}
store(d, i, a, t) == Extend(d, i, [data |-> a, lastAccessed |-> t])

\* (variant: the loop stops after the first entry it removes)
purgeOne(d, t, age) ==
  LET dead == {k \in DOMAIN d : Expired(d[k], t, age)}
  IN IF dead = {} THEN d
     ELSE [k \in DOMAIN d \ {CHOOSE x \in dead : TRUE} |-> d[k]]

\* (variant: the loop removes the entries that are about to expire too)
purgeAtMaxAge(d, t, age) ==
  Restrict(d, {k \in DOMAIN d : ~(t - d[k].lastAccessed >= age)})

\* (variant: the loop removes the oldest of the expired entries only)
purgeOldest(d, t, age) ==
  Restrict(d, {k \in DOMAIN d :
                 \/ ~Expired(d[k], t, age)
                 \/ \E x \in DOMAIN d :
                      /\ Expired(d[x], t, age)
                      /\ d[x].lastAccessed < d[k].lastAccessed})

\* The loop of Purge.
purge(d, t, age) == Restrict(d, {k \in DOMAIN d : ~Expired(d[k], t, age)})

\* (variant: hands out the stored bag itself)
copyResultShared(h, result) == [addr |-> result, heap |-> h]

\* The public Get and Poll after get returned: nil, or a copy of the result.
copyResult(h, result) ==
  IF result = Nil THEN [addr |-> Nil, heap |-> h] ELSE copyMap(h, result)

\* Every reference to a bag that the program holds, in a fixed order.
BagOf(d, k) == IF k \in DOMAIN d THEN d[k].data ELSE Nil

RefSeq(d, mm, oo, ll) ==
  [i \in 1..Len(CallerSeq) |-> mm[CallerSeq[i]]] \o
  [i \in 1..Len(CallerSeq) |-> oo[CallerSeq[i]]] \o
  [i \in 1..Len(CallerSeq) |-> ll[CallerSeq[i]]] \o
  [i \in 1..Len(KeySeq) |-> BagOf(d, KeySeq[i])]

\* The addresses of s, each once, in the order of their first occurrence.
RECURSIVE Distinct(_, _, _)
Distinct(s, i, q) ==
  IF i > Len(s) THEN q
  ELSE IF s[i] = Nil \/ \E j \in 1..Len(q) : q[j] = s[i]
    THEN Distinct(s, i + 1, q)
    ELSE Distinct(s, i + 1, Append(q, s[i]))

Ren(q, a) == IF a = Nil THEN Nil ELSE CHOOSE n \in 1..Len(q) : q[n] = a

\* The garbage collector.  Bags nothing refers to are gone; the others are
\* named 1..n in the order of RefSeq.  An address is only a name: the
\* renaming keeps which references are the same object and which are not.
Collect(d, h, mm, oo, ll) ==
  CHOOSE g \in
    {[data |-> [k \in DOMAIN d |-> [d[k] EXCEPT !.data = Ren(q, @)]],
      heap |-> [n \in 1..Len(q) |-> h[q[n]]],
      m |-> [c \in Callers |-> Ren(q, mm[c])],
      out |-> [c \in Callers |-> Ren(q, oo[c])],
      loc |-> [c \in Callers |-> Ren(q, ll[c])]]
     : q \in {Distinct(RefSeq(d, mm, oo, ll), 1, <<>>)}} : TRUE

\* The state of the memory after a step.
Commit(d, h, mm, oo, ll) ==
  \E g \in {Collect(d, h, mm, oo, ll)} :
     /\ data' = g.data
     /\ heap' = g.heap
     /\ m' = g.m
     /\ out' = g.out
     /\ loc' = g.loc

\* ---------------------------------------------------------------------
\* History: what the callers have been told
\* ---------------------------------------------------------------------
\* saved: a Save of the ID returned;  b: the content of the bag passed to
\* the latest Save;  T: the time of the latest counted access (Save or a
\* Get that found the bag);  dead: a read since the latest Save returned
\* not-found;  present: saved and not expired at a Purge since.
NoAcc ==
  [saved |-> FALSE, b |-> EmptyBag, T |-> 0, dead |-> FALSE,
   present |-> FALSE]

NoLin == [T |-> 0, dead |-> FALSE, t |-> 0, b |-> EmptyBag, present |-> FALSE]

\* What the last step was.  For a Get or Poll that returned: its caller and
\* argument, the clock t it read, and acc[id] as it was before it; what it
\* returned is out[c].
NoCall ==
  [op |-> "none", c |-> 1, id |-> "key", t |-> 0, T |-> 0, dead |-> FALSE,
   b |-> EmptyBag, present |-> FALSE]

Rec(op, c, i, l) ==
  IF hist
    THEN [op |-> op, c |-> c, id |-> i, t |-> l.t, T |-> l.T,
          dead |-> l.dead, b |-> l.b, present |-> l.present]
    ELSE NoCall

Did(op, c) == Rec(op, c, "key", NoLin)

Prior(i) ==
  IF hist
    THEN [T |-> acc[i].T, dead |-> acc[i].dead, t |-> now, b |-> acc[i].b,
          present |-> acc[i].present]
    ELSE NoLin

AccAfterSave(i, b) ==
  IF ~hist THEN acc ELSE
  [acc EXCEPT ![i] = [saved |-> TRUE, b |-> b, T |-> now, dead |-> FALSE,
                      present |-> TRUE]]

AccAfterRead(i, found, counts) ==
  IF ~hist \/ ~acc[i].saved THEN acc
  ELSE [acc EXCEPT ![i] =
          [@ EXCEPT !.T = IF found /\ counts THEN now ELSE @,
                    !.dead = @ \/ ~found]]

AccAfterPurge ==
  IF ~hist THEN acc ELSE
  [k \in Keys |->
     [acc[k] EXCEPT !.present = @ /\ ~(now - acc[k].T > maxAge)]]

\* ---------------------------------------------------------------------
\* Initial states: newRAMSessionsForTesting(maxAge, clock) with maxAge one
\* of ages; each goroutine that will call the store holds a bag of its own,
\* {5: 8} or {5: 10}.
\* ---------------------------------------------------------------------
Idle == [op |-> "none", at |-> "idle"]

\* An error that is nil; a request, or a response, without the cookie.
NoError == "nil"

NoCookie == ""

\* sessions.NewSession(store, name), IsNew set by New: no ID yet.
NoSession == [ID |-> "", IsNew |-> TRUE]

InitWith(active, ages) ==
  /\ data = [k \in {} |-> 0]
  /\ maxAge \in ages
  /\ now = 0
  /\ mutex = Free
  /\ heap = [a \in active |-> IF a = 1 THEN (5 :> 8) ELSE (5 :> 10)]
  /\ m = [c \in Callers |-> IF c \in active THEN c ELSE Nil]
  /\ out = [c \in Callers |-> Nil]
  /\ pc = [c \in Goroutines |-> Idle]
  /\ id = [c \in Callers |-> "key"]
  /\ loc = [c \in Callers |-> Nil]
  /\ ops = 0
  /\ acc = [k \in Keys |-> NoAcc]
  /\ lin = [c \in Callers |-> NoLin]
  /\ last = NoCall
  /\ timer = NoTimer
  /\ sdata = "nil"
  /\ session = NoSession
  /\ err = NoError
  /\ cookie = NoCookie
  /\ calls = 0

Init == InitWith({1}, 1..MaxMaxAge) /\ hist = TRUE

InitC == InitWith(Callers, {MaxMaxAge}) /\ hist = TRUE

\* ---------------------------------------------------------------------
\* The clock and the callers' own bags
\* ---------------------------------------------------------------------

\* fakeClock.Wait(seconds)
Wait(seconds) ==
  /\ now + seconds <= MaxClock
  /\ now' = now + seconds
  /\ last' = NoCall
  /\ UNCHANGED <<hist, timer, adapter>>
  /\ UNCHANGED <<data, maxAge, mutex, heap, m, out, pc, id, loc, ops, acc,
                 lin>>

\* m[k] = v
Assign(b, k, v) == Extend(b, k, v)

\* delete(m, k)
Delete(b, k) == Restrict(b, DOMAIN b \ {k})

\* The caller changes, in place, a bag it holds.
Mutate(c, a, b2, op) ==
  /\ pc[c] = Idle
  /\ a # Nil
  /\ heap[a] # b2
  /\ heap' = [heap EXCEPT ![a] = b2]
  /\ last' = Did(op, c)
  /\ UNCHANGED <<hist, timer, adapter>>
  /\ UNCHANGED <<data, maxAge, now, mutex, m, out, pc, id, loc, acc, lin>>

\* ... the bag it passed, or will pass, to Save
MutateArg(c) ==
  \E k \in BagKeys :
    \/ \E v \in BagVals : Mutate(c, m[c], Assign(heap[m[c]], k, v), "MutateArg")
    \/ Mutate(c, m[c], Delete(heap[m[c]], k), "MutateArg")

\* ... the bag a Get or a Poll returned
MutateOut(c) ==
  /\ out[c] # Nil
  /\ \E k \in BagKeys :
       \/ \E v \in BagVals :
            Mutate(c, out[c], Assign(heap[out[c]], k, v), "MutateOut")
       \/ Mutate(c, out[c], Delete(heap[out[c]], k), "MutateOut")

\* ---------------------------------------------------------------------
\* Spec: the operations, each as one call made by the only goroutine
\* ---------------------------------------------------------------------

\* (variant: stores the caller's bag itself)
SaveShared(c, i, a) ==
  /\ Commit(store(data, i, a, now), heap, m, out, loc)
  /\ acc' = AccAfterSave(i, Content(heap, a))
  /\ last' = NoCall
  /\ UNCHANGED <<hist, timer, adapter>>
  /\ UNCHANGED <<maxAge, now, mutex, pc, id, ops, lin>>

\* RAMSessions.Save(id, a)
Save(c, i, a) ==
  \E cp \in {copyMap(heap, a)} :
     /\ Commit(store(data, i, cp.addr, now), cp.heap, m, out, loc)
     /\ acc' = AccAfterSave(i, Content(heap, a))
     /\ last' = NoCall
     /\ UNCHANGED <<hist, timer, adapter>>
     /\ UNCHANGED <<maxAge, now, mutex, pc, id, ops, lin>>

\* RAMSessions.Get and RAMSessions.Poll
Read(c, i, updateLastAccessed, op) ==
  \E g \in {get(data, i, now, maxAge, updateLastAccessed)} :
  \E cp \in {copyResult(heap, g.result)} :
     /\ Commit(g.data, cp.heap, m, [out EXCEPT ![c] = cp.addr], loc)
     /\ acc' = AccAfterRead(i, cp.addr # Nil, updateLastAccessed)
     /\ last' = Rec(op, c, i, Prior(i))
     /\ UNCHANGED <<hist, timer, adapter>>
     /\ UNCHANGED <<maxAge, now, mutex, pc, id, ops, lin>>

Get(c, i) == Read(c, i, TRUE, "Get")

\* (variant: Poll records the access as Get does)
PollCounting(c, i) == Read(c, i, TRUE, "Poll")

Poll(c, i) == Read(c, i, FALSE, "Poll")

\* RAMSessions.Purge
Purge(c) ==
     /\ Commit(purge(data, now, maxAge), heap, m, out, loc)
     /\ acc' = AccAfterPurge
     /\ last' = Did("Purge", c)
     /\ UNCHANGED <<hist, timer, adapter>>
     /\ UNCHANGED <<maxAge, now, mutex, pc, id, ops, lin>>

Next ==
  \/ \E i \in Keys : Save(1, i, m[1])
  \/ \E i \in Keys : Save(1, i, out[1])
  \/ \E i \in Keys : Get(1, i)
  \/ \E i \in Keys : Poll(1, i)
  \/ Purge(1)
  \/ \E seconds \in 1..MaxWait : Wait(seconds)
  \/ MutateArg(1) /\ UNCHANGED ops
  \/ MutateOut(1) /\ UNCHANGED ops

Spec == Init /\ [][Next]_vars

\* ---------------------------------------------------------------------
\* SpecC: the operations, statement by statement, called by several
\* goroutines
\* ---------------------------------------------------------------------
At(c, op, at) == pc[c] = [op |-> op, at |-> at]

Goto(c, op, at) == pc' = [pc EXCEPT ![c] = [op |-> op, at |-> at]]

\* The goroutines together do at most MaxOps things: calls, changes to
\* their bags.  (Where no history is kept the calls are not counted, and
\* the goroutines call for ever.)
Counted(c) ==
  IF hist
    THEN ops < MaxOps /\ ops' = ops + 1
    ELSE ops' = ops

\* (variant: Save keeps the caller's bag instead of a copy)
CallSaveShared(c, i, a) ==
  /\ pc[c] = Idle
  /\ Counted(c)
  /\ Commit(data, heap, m, out, [loc EXCEPT ![c] = a])
  /\ id' = [id EXCEPT ![c] = i]
  /\ Goto(c, "Save", "Lock")
  /\ last' = NoCall
  /\ UNCHANGED <<hist, timer, adapter>>
  /\ UNCHANGED <<maxAge, now, mutex, acc, lin>>

\* A call of Save(i, a) up to its Lock: data = copyMap(data)
CallSave(c, i, a) ==
  /\ pc[c] = Idle
  /\ Counted(c)
  /\ \E cp \in {copyMap(heap, a)} :
        Commit(data, cp.heap, m, out, [loc EXCEPT ![c] = cp.addr])
  /\ id' = [id EXCEPT ![c] = i]
  /\ Goto(c, "Save", "Lock")
  /\ last' = NoCall
  /\ UNCHANGED <<hist, timer, adapter>>
  /\ UNCHANGED <<maxAge, now, mutex, acc, lin>>

\* A call of Get(i), Poll(i) or Purge() up to its Lock
Call(c, op, i) ==
  /\ pc[c] = Idle
  /\ Counted(c)
  /\ id' = [id EXCEPT ![c] = i]
  /\ Goto(c, op, "Lock")
  /\ last' = NoCall
  /\ UNCHANGED <<hist, timer, adapter>>
  /\ UNCHANGED <<data, maxAge, now, mutex, heap, m, out, loc, acc, lin>>

\* (variant: does not wait for the mutex)
LockAnyway(c) ==
  /\ pc[c].at = "Lock"
  /\ mutex' = c
  /\ Goto(c, pc[c].op, "Body")
  /\ last' = NoCall
  /\ UNCHANGED <<hist, timer, adapter>>
  /\ UNCHANGED <<data, maxAge, now, heap, m, out, id, loc, ops, acc, lin>>

\* r.mutex.Lock()
Lock(c) ==
  /\ pc[c].at = "Lock"
  /\ mutex = Free
  /\ mutex' = c
  /\ Goto(c, pc[c].op, "Body")
  /\ last' = NoCall
  /\ UNCHANGED <<hist, timer, adapter>>
  /\ UNCHANGED <<data, maxAge, now, heap, m, out, id, loc, ops, acc, lin>>

\* Save under the mutex: r.data[id] = &ramSession{data, r.clock()}
SaveBody(c) ==
  /\ At(c, "Save", "Body")
  /\ Commit(store(data, id[c], loc[c], now), heap, m, out,
            [loc EXCEPT ![c] = Nil])
  /\ acc' = AccAfterSave(id[c], Content(heap, loc[c]))
  /\ Goto(c, "Save", "Unlock")
  /\ last' = NoCall
  /\ UNCHANGED <<hist, timer, adapter>>
  /\ UNCHANGED <<maxAge, now, mutex, id, ops, lin>>

\* get under the mutex: the lookup and ramSession.Get
ReadBody(c) ==
  /\ pc[c].op \in {"Get", "Poll"}
  /\ pc[c].at = "Body"
  /\ \E g \in {get(data, id[c], now, maxAge, pc[c].op = "Get")} :
       /\ Commit(g.data, heap, m, out, [loc EXCEPT ![c] = g.result])
       /\ acc' = AccAfterRead(id[c], g.result # Nil, pc[c].op = "Get")
  /\ lin' = [lin EXCEPT ![c] = Prior(id[c])]
  /\ Goto(c, pc[c].op, "Unlock")
  /\ last' = NoCall
  /\ UNCHANGED <<hist, timer, adapter>>
  /\ UNCHANGED <<maxAge, now, mutex, id, ops>>

\* Purge under the mutex: now := r.clock() and the loop
PurgeBody(c) ==
  /\ At(c, "Purge", "Body")
  /\ Commit(purge(data, now, maxAge), heap, m, out, loc)
  /\ acc' = AccAfterPurge
  /\ Goto(c, "Purge", "Unlock")
  /\ last' = NoCall
  /\ UNCHANGED <<hist, timer, adapter>>
  /\ UNCHANGED <<maxAge, now, mutex, id, ops, lin>>

\* (variant: Purge returns without r.mutex.Unlock())
UnlockNotInPurge(c) ==
  /\ pc[c].at = "Unlock"
  /\ mutex' = IF pc[c].op = "Purge" THEN mutex ELSE Free
  /\ IF pc[c].op \in {"Get", "Poll"}
       THEN Goto(c, pc[c].op, "Copy")
       ELSE pc' = [pc EXCEPT ![c] = Idle]
  /\ last' = NoCall
  /\ UNCHANGED <<hist, timer, adapter>>
  /\ UNCHANGED <<data, maxAge, now, heap, m, out, id, loc, ops, acc, lin>>

\* The deferred r.mutex.Unlock(); Save and Purge return, get returns to
\* Get or Poll.
Unlock(c) ==
  /\ pc[c].at = "Unlock"
  /\ mutex' = Free
  /\ IF pc[c].op \in {"Get", "Poll"}
       THEN Goto(c, pc[c].op, "Copy")
       ELSE pc' = [pc EXCEPT ![c] = Idle]
  /\ last' = NoCall
  /\ UNCHANGED <<hist, timer, adapter>>
  /\ UNCHANGED <<data, maxAge, now, heap, m, out, id, loc, ops, acc, lin>>

\* Get and Poll after get returned: return nil or copyMap(result)
ReadCopy(c) ==
  /\ pc[c].at = "Copy"
  /\ \E cp \in {copyResult(heap, loc[c])} :
        Commit(data, cp.heap, m, [out EXCEPT ![c] = cp.addr],
               [loc EXCEPT ![c] = Nil])
  /\ last' = Rec(pc[c].op, c, id[c], lin[c])
  /\ lin' = [lin EXCEPT ![c] = NoLin]
  /\ pc' = [pc EXCEPT ![c] = Idle]
  /\ UNCHANGED <<hist, timer, adapter>>
  /\ UNCHANGED <<maxAge, now, mutex, id, ops, acc>>

\* The goroutines of SpecC contend for one ID, and the clock of SpecC runs
\* until an entry saved at the start has expired.
KeysC == {"key"}

NextC ==
  \/ \E c \in Callers, i \in KeysC : CallSave(c, i, m[c])
  \/ \E c \in Callers, i \in KeysC : Call(c, "Get", i)
  \/ \E c \in Callers, i \in KeysC : Call(c, "Poll", i)
  \/ \E c \in Callers : Call(c, "Purge", "key")
  \/ \E c \in Callers : Lock(c)
  \/ \E c \in Callers : SaveBody(c)
  \/ \E c \in Callers : ReadBody(c)
  \/ \E c \in Callers : PurgeBody(c)
  \/ \E c \in Callers : Unlock(c)
  \/ \E c \in Callers : ReadCopy(c)
  \/ \E seconds \in 1..MaxWait : now + seconds <= maxAge + 1 /\ Wait(seconds)
  \/ \E c \in Callers : Counted(c) /\ MutateArg(c)
  \/ \E c \in Callers : Counted(c) /\ MutateOut(c)

SpecC == InitC /\ [][NextC]_vars

\* ---------------------------------------------------------------------
\* SpecW: RAMStore, and the SessionData it loads from and saves to.  The
\* RAMStores here are copies of one RAMStore (withSData): they have the
\* same Data, the RAMSessions of the model, and differ in their SData.
\* One goroutine calls them, every call is one step, and every call is
\* about one of the IDs of KeysC.
\* ---------------------------------------------------------------------
errSessionData == "errSessionData"

\* What the Data field holds; what the SData field can hold: nil, the
\* RAMSessions in Data, its AsPoller() view, an errorData{}.
Data == "RAMSessions"

SDatas == {"nil", "RAMSessions", "poller", "errorData"}

\* A SessionData method's outcome: the map and the memory after it, what
\* it returned.
\* (variant: a missing session is an error)
RAMSessionsGetDataNotFound(d, h, i, t, age) ==
  CHOOSE r \in
    {[data |-> g.data, heap |-> h, addr |-> g.result,
      err |-> IF g.result = Nil THEN "not found" ELSE NoError]
     : g \in {get(d, i, t, age, TRUE)}} : TRUE

\* RAMSessions.GetData: return r.Get(id), nil
RAMSessionsGetData(d, h, i, t, age) ==
  CHOOSE r \in
    {[data |-> g.data, heap |-> cp.heap, addr |-> cp.addr, err |-> NoError]
     : cp \in {copyResult(h, g.result) : g \in {get(d, i, t, age, TRUE)}},
       g \in {get(d, i, t, age, TRUE)}} : TRUE

\* (variant: the view reads with Get)
pollerGetDataWithGet(d, h, i, t, age) == RAMSessionsGetData(d, h, i, t, age)

\* poller.GetData: return p.Poll(id), nil
pollerGetData(d, h, i, t, age) ==
  CHOOSE r \in
    {[data |-> g.data, heap |-> cp.heap, addr |-> cp.addr, err |-> NoError]
     : cp \in {copyResult(h, g.result) : g \in {get(d, i, t, age, FALSE)}},
       g \in {get(d, i, t, age, FALSE)}} : TRUE

\* errorData.GetData: return nil, errSessionData
errorDataGetData(d, h, i, t, age) ==
  [data |-> d, heap |-> h, addr |-> Nil, err |-> errSessionData]

GetData(sd, d, h, i, t, age) ==
  CASE sd = "RAMSessions" -> RAMSessionsGetData(d, h, i, t, age)
    [] sd = "poller" -> pollerGetData(d, h, i, t, age)
    [] sd = "errorData" -> errorDataGetData(d, h, i, t, age)

\* RAMSessions.SaveData: r.Save(id, data); return nil
RAMSessionsSaveData(d, h, i, a, t) ==
  CHOOSE r \in
    {[data |-> store(d, i, cp.addr, t), heap |-> cp.heap, err |-> NoError]
     : cp \in {copyMap(h, a)}} : TRUE

\* (variant: the view saves nothing)
pollerSaveDataNothing(d, h, i, a, t) ==
  [data |-> d, heap |-> h, err |-> NoError]

\* SaveData of poller: poller embeds *RAMSessions and declares no SaveData
\* of its own, so it is RAMSessions.SaveData.
pollerSaveData(d, h, i, a, t) == RAMSessionsSaveData(d, h, i, a, t)

\* errorData.SaveData: return errSessionData
errorDataSaveData(d, h, i, a, t) ==
  [data |-> d, heap |-> h, err |-> errSessionData]

SaveData(sd, d, h, i, a, t) ==
  CASE sd = "RAMSessions" -> RAMSessionsSaveData(d, h, i, a, t)
    [] sd = "poller" -> pollerSaveData(d, h, i, a, t)
    [] sd = "errorData" -> errorDataSaveData(d, h, i, a, t)

\* (variant: Data takes precedence)
getDataPreferData(sd) == IF Data # "nil" THEN Data ELSE sd

\* RAMStore.getData
getData(sd) == IF sd # "nil" THEN sd ELSE Data

\* What load leaves: the map and the memory, Values and IsNew of the
\* session, the error returned, the calls made on the SessionData.
Loaded(r, values, n) ==
  [data |-> r.data, heap |-> r.heap,
   Values |-> IF r.err = NoError /\ r.addr # Nil THEN r.addr ELSE values,
   IsNew |-> ~(r.err = NoError /\ r.addr # Nil),
   err |-> r.err, calls |-> n]

\* (variant: load tries once more when GetData fails)
loadRetry(sd, d, h, i, values, t, age) ==
  CHOOSE l \in
    {IF r.err = NoError
       THEN Loaded(r, values, 1)
       ELSE Loaded(GetData(getData(sd), r.data, r.heap, i, t, age), values, 2)
     : r \in {GetData(getData(sd), d, h, i, t, age)}} : TRUE

\* (variant: load takes a nil sessionData for the Values)
loadNil(sd, d, h, i, values, t, age) ==
  CHOOSE l \in
    {[Loaded(r, values, 1) EXCEPT
        !.IsNew = r.err # NoError,
        !.Values = IF r.err = NoError THEN r.addr ELSE values]
     : r \in {GetData(getData(sd), d, h, i, t, age)}} : TRUE

\* RAMStore.load(session), session.ID being i and session.Values values
load(sd, d, h, i, values, t, age) ==
  CHOOSE l \in
    {Loaded(r, values, 1)
     : r \in {GetData(getData(sd), d, h, i, t, age)}} : TRUE

\* RAMStore.save(session)
save(sd, d, h, i, values, t) == SaveData(getData(sd), d, h, i, values, t)

\* RAMStore.New(r, name) on the store with SData sd, the request r
\* carrying the cookie ck.  NewSession makes the Values, an empty map.
New(c, sd, ck) ==
  \E e \in {copyMap(heap, Nil)} :
  \E l \in {IF ck = NoCookie
              THEN [data |-> data, heap |-> e.heap, Values |-> e.addr,
                    IsNew |-> TRUE, err |-> NoError, calls |-> 0]
              ELSE load(sd, data, e.heap, ck, e.addr, now, maxAge)} :
     /\ Commit(l.data, l.heap, m, [out EXCEPT ![c] = l.Values], loc)
     /\ session' = [ID |-> ck, IsNew |-> l.IsNew]
     /\ err' = l.err
     /\ calls' = l.calls
     /\ sdata' = sd
     /\ acc' = IF l.calls = 0 \/ l.err # NoError THEN acc
               ELSE AccAfterRead(ck, ~l.IsNew, getData(sd) = "RAMSessions")
     /\ last' = Rec("New", c, IF ck = NoCookie THEN "key" ELSE ck,
                    Prior(IF ck = NoCookie THEN "key" ELSE ck))
     /\ UNCHANGED <<hist, timer, cookie>>
     /\ UNCHANGED <<maxAge, now, mutex, pc, id, ops, lin>>

\* RAMStore.Save(r, w, session) on the store with SData sd, by the caller
\* that holds the session.  A session without an ID gets a random one.
StoreSave(c, sd) ==
  /\ out[c] # Nil
  /\ \E i \in (IF session.ID = "" THEN KeysC ELSE {session.ID}) :
     \E r \in {save(sd, data, heap, i, out[c], now)} :
       /\ Commit(r.data, r.heap, m, out, loc)
       /\ session' = [session EXCEPT !.ID = i]
       /\ err' = r.err
       /\ cookie' = IF r.err = NoError THEN i ELSE NoCookie
       /\ acc' = IF r.err = NoError
                   THEN AccAfterSave(i, Content(heap, out[c]))
                   ELSE acc
       /\ last' = Rec("StoreSave", c, i, Prior(i))
  /\ calls' = 1
  /\ sdata' = sd
  /\ UNCHANGED <<hist, timer>>
  /\ UNCHANGED <<maxAge, now, mutex, pc, id, ops, lin>>

\* sd.GetData(i), called on the SessionData itself
CallGetData(c, sd, i) ==
  /\ \E r \in {GetData(sd, data, heap, i, now, maxAge)} :
       /\ Commit(r.data, r.heap, m, [out EXCEPT ![c] = r.addr], loc)
       /\ err' = r.err
       /\ acc' = IF r.err # NoError THEN acc
                 ELSE AccAfterRead(i, r.addr # Nil, sd = "RAMSessions")
  /\ last' = Rec("GetData", c, i, Prior(i))
  /\ calls' = 0
  /\ sdata' = sd
  /\ UNCHANGED <<hist, timer, session, cookie>>
  /\ UNCHANGED <<maxAge, now, mutex, pc, id, ops, lin>>

\* sd.SaveData(i, a), called on the SessionData itself
CallSaveData(c, sd, i, a) ==
  /\ \E r \in {SaveData(sd, data, heap, i, a, now)} :
       /\ Commit(r.data, r.heap, m, out, loc)
       /\ err' = r.err
       /\ acc' = IF r.err = NoError
                   THEN AccAfterSave(i, Content(heap, a))
                   ELSE acc
  /\ last' = Rec("SaveData", c, i, Prior(i))
  /\ calls' = 0
  /\ sdata' = sd
  /\ UNCHANGED <<hist, timer, session, cookie>>
  /\ UNCHANGED <<maxAge, now, mutex, pc, id, ops, lin>>

NextW ==
  \/ \E sd \in SDatas, ck \in KeysC \cup {NoCookie} : New(1, sd, ck)
  \/ \E sd \in SDatas : StoreSave(1, sd)
  \/ \E sd \in SDatas \ {"nil"}, i \in KeysC : CallGetData(1, sd, i)
  \/ \E sd \in SDatas \ {"nil"}, i \in KeysC : CallSaveData(1, sd, i, m[1])
  \/ \E seconds \in 1..MaxWait : Wait(seconds)
  \/ MutateOut(1) /\ UNCHANGED ops

SpecW == Init /\ [][NextW]_vars

\* ---------------------------------------------------------------------
\* SpecB: the goroutines of SpecC, calling for ever, and the goroutine that
\* newRAMSessionsForTesting starts.  The clock is the clock the timer of
\* that goroutine runs on (NewRAMSessions: nowInSeconds), and it never
\* stops.  The program looks at the clock only to take the difference to
\* a lastAccessed, so SpecB measures time from the present: now stays 0,
\* and when seconds pass every lastAccessed moves that far into the past.
\* An entry older than maxAge + 1 is expired and stays expired whatever
\* its age, so its age is kept at maxAge + 1.
\* ---------------------------------------------------------------------
Max(a, b) == IF a > b THEN a ELSE b

\* seconds go by (the clock counts seconds: every second is a step)
Pass(seconds) ==
  /\ data' = [k \in DOMAIN data |->
               [data[k] EXCEPT
                  !.lastAccessed = Max(@ - seconds, now - maxAge - 1)]]
  /\ timer' = IF timer = NoTimer THEN NoTimer ELSE Max(timer - seconds, 0)
  /\ UNCHANGED <<hist, adapter>>
  /\ UNCHANGED <<maxAge, now, mutex, heap, m, out, pc, id, loc, ops, acc,
                 lin, last>>

\* (variant: the goroutine purges once, there is no loop around it)
StartTimerOnce(c) ==
  /\ pc[c] = Idle
  /\ timer = NoTimer
  /\ timer' = maxAge
  /\ Goto(c, "Purge", "Timer")
  /\ UNCHANGED <<hist, adapter>>
  /\ UNCHANGED <<data, maxAge, now, mutex, heap, m, out, id, loc, ops, acc,
                 lin, last>>

\* The top of the loop: time.After(time.Duration(maxAge) * time.Second)
StartTimer(c) ==
  /\ pc[c] = Idle
  /\ timer' = maxAge
  /\ Goto(c, "Purge", "Timer")
  /\ UNCHANGED <<hist, adapter>>
  /\ UNCHANGED <<data, maxAge, now, mutex, heap, m, out, id, loc, ops, acc,
                 lin, last>>

\* <-time.After(...): the timer has run down, result.Purge() is called
TimerFires(c) ==
  /\ At(c, "Purge", "Timer")
  /\ timer = 0
  /\ Goto(c, "Purge", "Lock")
  /\ UNCHANGED <<hist, timer, adapter>>
  /\ UNCHANGED <<data, maxAge, now, mutex, heap, m, out, id, loc, ops, acc,
                 lin, last>>

InitB == InitWith(Callers, {MaxMaxAge}) /\ hist = FALSE

\* The first caller saves and purges, the second one reads.
NextB ==
  \/ \E i \in KeysC : CallSave(1, i, m[1])
  \/ \E i \in KeysC : Call(2, "Get", i)
  \/ \E i \in KeysC : Call(2, "Poll", i)
  \/ Call(1, "Purge", "key")
  \/ \E c \in Goroutines : Lock(c)
  \/ \E c \in Callers : SaveBody(c)
  \/ \E c \in Callers : ReadBody(c)
  \/ \E c \in Goroutines : PurgeBody(c)
  \/ \E c \in Goroutines : Unlock(c)
  \/ \E c \in Callers : ReadCopy(c)
  \/ StartTimer(Bg)
  \/ TimerFires(Bg)
  \/ Pass(1)

\* A goroutine that can take a step takes one (the scheduler is fair); a
\* goroutine that waits for the mutex gets it: sync.Mutex hands the mutex
\* to a goroutine that has waited for long (its starvation mode).  A
\* goroutine that is not in a call need not call.  Time goes by.
Step(c) ==
  \/ c \in Callers /\ (SaveBody(c) \/ ReadBody(c) \/ ReadCopy(c))
  \/ PurgeBody(c)
  \/ Unlock(c)

FairB ==
  /\ \A c \in Goroutines : SF_vars(Lock(c)) /\ WF_vars(Step(c))
  /\ WF_vars(StartTimer(Bg))
  /\ WF_vars(TimerFires(Bg))
  /\ WF_vars(Pass(1))

SpecB == InitB /\ [][NextB]_vars /\ FairB

\* ---------------------------------------------------------------------
\* Properties of Spec
\* ---------------------------------------------------------------------

\* What the last call returned to its caller.
Found == out[last.c] # Nil

Res == Content(heap, out[last.c])

Returned == last.op \in {"Get", "Poll"}

\* The addresses of the bags the entries hold.
StoredBags == {data[k].data : k \in DOMAIN data}

\* The map as a value: per ID the content of its bag and its timestamp.
StoreView ==
  [k \in DOMAIN data |->
     [bag |-> Content(heap, data[k].data),
      lastAccessed |-> data[k].lastAccessed]]

\* What a Poll(k) made in this state would return.
PollView(k) ==
  IF k \in DOMAIN data /\ now - data[k].lastAccessed <= maxAge
    THEN [found |-> TRUE, res |-> Content(heap, data[k].data)]
    ELSE [found |-> FALSE, res |-> EmptyBag]

\* C1: a Get of an ID at the clock value of the latest Save of that ID
\* returns a bag with exactly the content of the bag that Save was given
\* (nothing of an earlier bag of the ID), in an object that is neither a
\* bag the caller holds nor the bag of any entry.
C1_SaveThenGet ==
  (last.op = "Get" /\ acc[last.id].saved /\ last.t = last.T)
    => /\ Found
       /\ Res = acc[last.id].b
       /\ out[last.c] # m[last.c]
       /\ out[last.c] \notin StoredBags

C1_Witness ==
  /\ last.op = "Get" /\ acc[last.id].saved /\ last.t = last.T
  /\ Found /\ Res = EmptyBag /\ now > maxAge

\* C2: a Get or Poll of a saved ID at time t, the latest counted access
\* (Save or Get that found the bag) being at T, returns the saved bag when
\* t - T <= maxAge and not-found when t - T > maxAge.
C2_StrictExpiry ==
  (Returned /\ acc[last.id].saved)
    => IF last.t - last.T <= maxAge
         THEN Found /\ Res = acc[last.id].b
         ELSE ~Found

C2_Witness ==
  /\ Returned /\ acc[last.id].saved
  /\ last.t - last.T = maxAge /\ Found

\* C3: a Get that finds the bag at time t leaves the entry with
\* lastAccessed = t, and a Get no later than maxAge after the latest
\* counted access, itself possibly a Get, finds the bag.
C3_GetRefreshes ==
  /\ (last.op = "Get" /\ Found) =>
        /\ last.id \in DOMAIN data
        /\ data[last.id].lastAccessed = last.t
  /\ (last.op = "Get" /\ acc[last.id].saved /\ last.t - last.T <= maxAge)
        => Found /\ Res = acc[last.id].b

C3_Witness ==
  /\ last.op = "Get" /\ Found /\ last.T < last.t
  /\ data[last.id].lastAccessed = last.t
  /\ last.t = MaxClock

\* C4: a Poll changes neither the key set, nor any stored bag, nor any
\* lastAccessed; a read later than maxAge after the latest Save or
\* successful Get returns not-found however many Polls came between.
C4_PollFrame == [][last'.op = "Poll" => StoreView' = StoreView]_vars

C4_PollNoRefresh ==
  C4_PollFrame
  /\ []((Returned /\ acc[last.id].saved /\ last.t - last.T > maxAge)
          => ~Found)

C4_Witness ==
  /\ last.op = "Poll" /\ acc[last.id].saved /\ ~Found
  /\ last.t - last.T = maxAge + 1
  /\ last.id \in DOMAIN data

\* C5: a bag a Get or Poll returned is not the bag of any entry, and a
\* change the caller makes to it changes the result of no later Poll/Get.
C5_ReturnedBagIsACopy ==
  /\ [](\A c \in Callers : out[c] # Nil => out[c] \notin StoredBags)
  /\ [][last'.op = "MutateOut"
          => \A k \in Keys : PollView(k)' = PollView(k)]_vars

C5_Witness ==
  /\ last.op = "MutateOut"
  /\ \E k \in Keys : PollView(k).found /\ PollView(k).res # Res

\* C6: the bag of an entry is not a bag a caller holds, it has the content
\* the caller's bag had when it was saved, and a change the caller makes
\* to its bag changes the result of no later Poll/Get.
C6_SavedBagIsACopy ==
  /\ [](\A k \in DOMAIN data :
          /\ \A c \in Callers : data[k].data # m[c]
          /\ acc[k].saved /\ Content(heap, data[k].data) = acc[k].b)
  /\ [][last'.op = "MutateArg"
          => \A k \in Keys : PollView(k)' = PollView(k)]_vars

C6_Witness ==
  /\ last.op = "MutateArg"
  /\ \E k \in Keys :
       PollView(k).found /\ PollView(k).res # Content(heap, m[last.c])

\* C7: a Purge at clock value now removes exactly the entries with
\* now - lastAccessed > maxAge and leaves the others as they were.
C7_PurgeExact ==
  [][last'.op = "Purge" =>
       StoreView' =
         [k \in {x \in DOMAIN data : ~(now - data[x].lastAccessed > maxAge)}
            |-> StoreView[k]]]_vars

C7_Witness ==
  /\ last.op = "Purge"
  /\ "key" \notin DOMAIN data /\ acc["key"].saved
  /\ "key2" \in DOMAIN data

\* C8: a read that returns not-found changes nothing in the map, and once
\* a read of a saved ID has returned not-found every later read of it
\* returns not-found until the next Save of the ID.
C8_NoResurrection ==
  /\ []((Returned /\ last.dead) => ~Found)
  /\ [][(last'.op \in {"Get", "Poll"} /\ out'[last'.c] = Nil)
          => StoreView' = StoreView]_vars

C8_Witness ==
  /\ last.op = "Get" /\ last.dead /\ ~Found
  /\ last.id \in DOMAIN data

\* C9: a Get or Poll leaves the key set as it was, and a step that removes
\* a key is a step of Purge.
C9_OnlyPurgeRemoves ==
  /\ [][last'.op \in {"Get", "Poll"} => DOMAIN data' = DOMAIN data]_vars
  /\ [][~(DOMAIN data \subseteq DOMAIN data') => last'.op = "Purge"]_vars

C9_Witness ==
  /\ last.op = "Poll" /\ ~Found /\ ~last.dead
  /\ last.id \in DOMAIN data
  /\ now - data[last.id].lastAccessed > maxAge

\* C19: a Purge that follows a Purge, the clock being where it was and no
\* other call between them, changes nothing: after a Purge, the loop of
\* Purge finds nothing to remove.
C19_PurgeIdempotent ==
  /\ [][(last.op = "Purge" /\ last'.op = "Purge" /\ now' = now)
          => data' = data /\ heap' = heap /\ StoreView' = StoreView]_vars
  /\ [](last.op = "Purge" => purge(data, now, maxAge) = data)

C19_Witness ==
  /\ last.op = "Purge"
  /\ DOMAIN data = {"key2"}
  /\ acc["key"].saved /\ ~acc["key"].present
  /\ now - data["key2"].lastAccessed = maxAge

\* The map of a store that is given the same calls but never purges: an
\* entry for every ID that was saved, with the bag of the latest Save and
\* the time of the latest Save or Get that found the bag.
Unpurged ==
  [k \in {x \in Keys : acc[x].saved} |->
     [bag |-> acc[k].b, lastAccessed |-> acc[k].T]]

\* C22: the map is the map of the store that never purges without some
\* entries that are expired in that store; a Get or Poll returns what it
\* returns on the store that never purges; and a Purge leaves what a
\* Poll of each ID would return as it was.
C22_PurgeInvisible ==
  /\ [](/\ DOMAIN data \subseteq DOMAIN Unpurged
        /\ \A k \in DOMAIN Unpurged :
             IF k \in DOMAIN data
               THEN StoreView[k] = Unpurged[k]
               ELSE now - Unpurged[k].lastAccessed > maxAge)
  /\ [](Returned =>
          /\ Found <=> (acc[last.id].saved /\ last.t - last.T <= maxAge)
          /\ Found => Res = last.b)
  /\ [][last'.op = "Purge"
          => \A k \in Keys : PollView(k)' = PollView(k)]_vars

C22_Witness ==
  /\ last.op = "Get" /\ ~Found
  /\ acc[last.id].saved /\ ~last.present
  /\ last.id \notin DOMAIN data
  /\ DOMAIN data # {}

\* C23: no entry has a lastAccessed later than the clock; the content of
\* the bag of an entry changes in no step but a Save of its ID, which puts
\* a bag there that no caller holds; a Get changes nothing but the
\* lastAccessed of its ID, a Poll nothing, and a change a caller makes to
\* a bag it holds changes nothing in the map.
C23_TimestampsAndFrozenBags ==
  /\ [](\A k \in DOMAIN data :
          /\ data[k].lastAccessed <= now
          /\ \A c \in Callers : data[k].data \notin {m[c], out[c]})
  /\ [][\A k \in DOMAIN data \cap DOMAIN data' :
          StoreView'[k].bag # StoreView[k].bag
            => /\ last'.op = "none" /\ now' = now
               /\ acc'[k].T = now /\ StoreView'[k].bag = acc'[k].b]_vars
  /\ [][last'.op = "Get" =>
          /\ DOMAIN data' = DOMAIN data
          /\ \A k \in DOMAIN data :
               /\ StoreView'[k].bag = StoreView[k].bag
               /\ k # last'.id
                    => StoreView'[k].lastAccessed = StoreView[k].lastAccessed]_vars
  /\ [][last'.op \in {"Poll", "MutateArg", "MutateOut"}
          => StoreView' = StoreView]_vars

C23_Witness ==
  /\ last.op = "Get" /\ Found
  /\ DOMAIN data = Keys
  /\ data[last.id].lastAccessed = now
  /\ \E k \in Keys : data[k].lastAccessed < now
  /\ Res # Content(heap, m[last.c])

\* ---------------------------------------------------------------------
\* Properties of SpecC
\* ---------------------------------------------------------------------

\* The map that results from applying the calls one after the other, in
\* the order in which they executed under the mutex.
AbsView ==
  [k \in {x \in Keys : acc[x].present} |->
     [bag |-> acc[k].b, lastAccessed |-> acc[k].T]]

\* C10: with the steps of concurrent calls interleaved in any way, every
\* call takes effect at one point between its call and its return (where
\* it holds the mutex): a Get or Poll returns not-found or the complete
\* bag of the latest Save of the ID before that point, and the map is the
\* result of applying the calls in the order of these points.
C10_Linearizable ==
  /\ Returned =>
       IF last.present /\ last.t - last.T <= maxAge
         THEN Found /\ Res = last.b
         ELSE ~Found
  /\ StoreView = AbsView

C10_Witness ==
  /\ Returned /\ Found /\ Res = last.b
  /\ Res # acc[last.id].b
  /\ \E c \in Callers \ {last.c} :
       pc[c] = [op |-> "Save", at |-> "Unlock"] /\ id[c] = last.id

\* C20 as claimed: the copy of the caller's bag that Save makes, and the
\* copy of the stored bag that Get and Poll make, are made by a goroutine
\* that holds the mutex.
C20_CopyUnderLock ==
  \A c \in Callers :
    /\ (pc[c].op = "Save" /\ loc[c] # Nil) => mutex = c
    /\ (pc[c].at = "Copy" /\ loc[c] # Nil) => mutex = c

\* C20, amended: a goroutine holds the mutex exactly while it is at the
\* statements between its Lock and its Unlock: the lookup, the expiry
\* check, the update of lastAccessed and the assignment to the map; only
\* such a step changes the map.  The copies are made without the mutex:
\* Save has made its copy when it waits for the mutex, Get and Poll make
\* theirs when they have released it.
C20_LockedExceptCopies ==
  /\ [](\A c \in Callers :
          /\ mutex = c <=> pc[c].at \in {"Body", "Unlock"}
          /\ At(c, "Save", "Lock") => loc[c] # Nil /\ loc[c] # m[c])
  /\ [][StoreView' # StoreView =>
          /\ mutex \in Callers
          /\ mutex' = mutex
          /\ pc[mutex].at = "Body"
          /\ pc'[mutex].at = "Unlock"]_vars

C20_Witness ==
  /\ At(1, "Get", "Copy") /\ loc[1] # Nil
  /\ At(2, "Save", "Lock") /\ loc[2] # Nil
  /\ mutex = Free
  /\ loc[1] \in StoredBags

\* ---------------------------------------------------------------------
\* Properties of SpecW
\* ---------------------------------------------------------------------

\* The map d with the bags of memory h as a value (StoreView of d and h).
ViewOf(d, h) ==
  [k \in DOMAIN d |->
     [bag |-> Content(h, d[k].data), lastAccessed |-> d[k].lastAccessed]]

\* C13: GetData on the AsPoller view returns what a Poll of the ID returns,
\* and a nil error; it changes no lastAccessed (nor anything else in the
\* map), so a read later than maxAge after the latest Save or Get returns
\* not-found however many GetData on the view came between.
C13_PollerGetData ==
  /\ [][(last'.op = "GetData" /\ sdata' = "poller") =>
          /\ err' = NoError
          /\ (out'[last'.c] # Nil) = PollView(last'.id).found
          /\ Content(heap', out'[last'.c]) = PollView(last'.id).res
          /\ StoreView' = StoreView]_vars
  /\ []((last.op = "GetData" /\ sdata # "errorData" /\ acc[last.id].saved
          /\ last.t - last.T > maxAge) => ~Found)

C13_Witness ==
  /\ last.op = "GetData" /\ sdata = "poller"
  /\ Found /\ Res = acc[last.id].b
  /\ data[last.id].lastAccessed < now
  /\ calls = 0

\* C14 as claimed: neither GetData nor SaveData on the view changes the key
\* set, a stored bag or a lastAccessed.
C14_ViewIsReadOnly ==
  [][(sdata' = "poller" /\ last'.op \in {"GetData", "SaveData"})
       => StoreView' = StoreView]_vars

\* C14, amended: GetData on the view changes nothing in the map; SaveData
\* on the view is the SaveData of the store: it returns nil and leaves the
\* ID with a bag of the content of the caller's bag and lastAccessed = now.
C14_ViewWritesThrough ==
  [][sdata' = "poller" =>
       /\ last'.op = "GetData" => StoreView' = StoreView
       /\ last'.op = "SaveData" =>
            /\ err' = NoError
            /\ StoreView' =
                 Extend(StoreView, last'.id,
                        [bag |-> Content(heap, m[last'.c]),
                         lastAccessed |-> now])]_vars

C14_Witness ==
  /\ last.op = "SaveData" /\ sdata = "poller"
  /\ last.present /\ last.T < last.t
  /\ data[last.id].lastAccessed = now
  /\ last.b # Content(heap, data[last.id].data)

\* C15: GetData and SaveData of the RAMSessions and of its view return a
\* nil error, GetData of an ID that is absent or expired returns a nil bag
\* (and a nil error), and New and Save of a RAMStore whose SessionData is
\* the RAMSessions or its view return a nil error.
C15_NoFailure ==
  /\ []((last.op \in {"GetData", "SaveData", "New", "StoreSave"}
          /\ sdata # "errorData") => err = NoError)
  /\ [][(last'.op = "GetData" /\ sdata' # "errorData"
          /\ ~PollView(last'.id).found)
          => out'[last'.c] = Nil /\ err' = NoError]_vars

C15_Witness ==
  /\ last.op = "GetData" /\ sdata = "RAMSessions"
  /\ ~Found /\ err = NoError
  /\ last.id \in DOMAIN data

\* C16: on a RAMStore whose SData fails, New of a request with the cookie
\* returns the error of GetData and Save returns the error of SaveData and
\* sets no cookie; each has called its SessionData once.
C16_ErrorPropagates ==
  sdata = "errorData" =>
    /\ (last.op = "New" /\ session.ID # "") =>
          err = errSessionData /\ calls = 1
    /\ last.op = "StoreSave" =>
          err = errSessionData /\ calls = 1 /\ cookie = NoCookie

C16_Witness ==
  /\ sdata = "errorData" /\ last.op = "StoreSave"
  /\ err = errSessionData /\ cookie = NoCookie
  /\ ~session.IsNew

\* C17: New on a RAMStore whose SessionData is its RAMSessions: without
\* the cookie the session is new, has no ID and empty Values; with the
\* cookie of an ID that has a live entry the session is not new, its
\* Values have the content of the saved bag and the entry's lastAccessed
\* becomes now; with the cookie of an ID that has no live entry the
\* session is new, has empty Values and the cookie's value as its ID.
\* Nothing else in the map changes, and the error is nil.
C17_NewFromStore ==
  [][(last'.op = "New" /\ sdata' \in {"nil", "RAMSessions"}) =>
       /\ err' = NoError
       /\ out'[last'.c] # Nil
       /\ IF session'.ID = ""
            THEN /\ session'.IsNew
                 /\ Res' = EmptyBag
                 /\ StoreView' = StoreView
            ELSE /\ session'.ID = last'.id
                 /\ IF PollView(last'.id).found
                      THEN /\ ~session'.IsNew
                           /\ Res' = PollView(last'.id).res
                           /\ Res' = last'.b
                           /\ StoreView' =
                                [StoreView EXCEPT
                                   ![last'.id].lastAccessed = now]
                      ELSE /\ session'.IsNew
                           /\ Res' = EmptyBag
                           /\ StoreView' = StoreView]_vars

C17_Witness ==
  /\ last.op = "New" /\ sdata = "nil"
  /\ ~session.IsNew /\ session.ID = "key"
  /\ Res # EmptyBag
  /\ last.T < last.t /\ data["key"].lastAccessed = last.t

\* C18: a load or save of a RAMStore has the effect, and returns the
\* error, of the method of its SData when SData is not nil (Data is not
\* nil in any of the stores), and of the method of its Data when SData is
\* nil; and a store whose SData is its Data loads and saves as the store
\* whose SData is nil.
C18_Routing ==
  /\ [][(last'.op = "New" /\ session'.ID # "") =>
          \E r \in {GetData(IF sdata' = "nil" THEN Data ELSE sdata',
                             data, heap, last'.id, now, maxAge)} :
             /\ err' = r.err
             /\ StoreView' = ViewOf(r.data, r.heap)
             /\ session'.IsNew = (r.addr = Nil)
             /\ Res' = Content(r.heap, r.addr)]_vars
  /\ [][last'.op = "StoreSave" =>
          \E r \in {SaveData(IF sdata' = "nil" THEN Data ELSE sdata',
                              data, heap, last'.id, out[last'.c], now)} :
             /\ err' = r.err
             /\ StoreView' = ViewOf(r.data, r.heap)]_vars
  /\ [](\A i \in KeysC :
          /\ load("RAMSessions", data, heap, i, Nil, now, maxAge)
               = load("nil", data, heap, i, Nil, now, maxAge)
          /\ save("RAMSessions", data, heap, i, out[1], now)
               = save("nil", data, heap, i, out[1], now))

C18_Witness ==
  /\ last.op = "New" /\ sdata = "errorData"
  /\ err = errSessionData
  /\ PollView(last.id).found
  /\ session.ID = last.id

\* An entry of the ID is in the map and has not expired.
Live(k) == k \in DOMAIN data /\ ~(now - data[k].lastAccessed > maxAge)

\* C21: a Get (GetData of the RAMSessions) or Poll (GetData of the view)
\* returns not-found exactly when the ID has no entry or its entry has
\* expired, whatever the bag holds, and New of a RAMStore loading from
\* them reports IsNew = false exactly when the ID has a live entry; in
\* every state, after a Save of a nil bag a Get and a Poll of the ID
\* return a bag that is not nil and has no entries, and New reports
\* IsNew = false.
C21_NotFoundIffAbsentOrExpired ==
  /\ [][(last'.op = "GetData" /\ sdata' \in {"RAMSessions", "poller"})
          => (out'[last'.c] # Nil) = Live(last'.id)]_vars
  /\ [][(last'.op = "New" /\ sdata' # "errorData" /\ session'.ID # "")
          => session'.IsNew = ~Live(last'.id)]_vars
  /\ [](\A i \in KeysC :
        \E s \in {RAMSessionsSaveData(data, heap, i, Nil, now)} :
          /\ \A sd \in {"RAMSessions", "poller"} :
               \E g \in {GetData(sd, s.data, s.heap, i, now, maxAge)} :
                  g.addr # Nil /\ Content(g.heap, g.addr) = EmptyBag
          /\ ~load("nil", s.data, s.heap, i, Nil, now, maxAge).IsNew)

C21_Witness ==
  /\ last.op = "New" /\ sdata = "nil"
  /\ ~session.IsNew
  /\ out[last.c] # Nil /\ Res = EmptyBag
  /\ last.b = EmptyBag /\ last.T < last.t

ExpiredEntry(k) == k \in DOMAIN data /\ Expired(data[k], now, maxAge)

\* C11: the background goroutine purges again and again, so an entry that
\* has expired does not stay in the map for ever: it is removed, or a Save
\* of its ID replaces it.
C11_BackgroundPurge ==
  /\ []<>(At(Bg, "Purge", "Body"))
  /\ \A k \in KeysC : ExpiredEntry(k) ~> ~ExpiredEntry(k)

C11_Witness ==
  /\ At(Bg, "Purge", "Body")
  /\ ExpiredEntry("key")
  /\ timer = 0
  /\ \A c \in Callers : pc[c].at = "Lock"

\* A goroutine is in a call from the call to the return.
InCall(c) == pc[c].at \in {"Lock", "Body", "Unlock", "Copy"}

\* C12: every call that has started returns, whatever the other callers
\* and the background goroutine do; the mutex is held only by a goroutine
\* that is at the statements between its Lock and its Unlock, which can
\* take its next step, and no goroutine that holds the mutex waits for it.
C12_NoBlocking ==
  /\ \A c \in Goroutines : InCall(c) ~> pc[c] = Idle
  /\ [](\A c \in Goroutines :
          /\ mutex = c <=> pc[c].at \in {"Body", "Unlock"}
          /\ mutex = c => ENABLED Step(c))

C12_Witness ==
  /\ At(1, "Save", "Unlock")
  /\ At(2, "Get", "Lock")
  /\ At(Bg, "Purge", "Lock")
  /\ out[2] # Nil
====